---- MODULE Spec2Model ----
(***************************************************************************)
(* Order creation (orders/serializers.py) and the payment status machine   *)
(* (payments/models.py, payments/views.py) of the e-commerce backend, as a *)
(* state machine over the rows of the relational store.  Amounts are       *)
(* integer cents.  Every request is a process: its steps are the database  *)
(* statements of its handler, interleaved with those of other requests.    *)
(***************************************************************************)
EXTENDS Integers, Sequences, FiniteSets, TLC

VARIABLES
    products,    \* Product rows: id -> [name, stock, price, is_active]
    orders,      \* Order rows, in id order; each carries its OrderItem rows
    addresses,   \* number of Address rows
    clock,       \* the millisecond of the latest now() call
    pc,          \* order-creation request -> position in the handler
    user,        \* order-creation request -> request.user
    key,         \* order-creation request -> Idempotency-Key header (NoKey: absent)
    cart,        \* order-creation request -> validated["items"]
    pmap,        \* order-creation request -> rows read (and locked) by select_for_update
    started,     \* order-creation request -> number of Order rows when the call began
    result,      \* order-creation request -> outcome of the call
    ret,         \* order-creation request -> id of the Order returned (0: none)
    payments,    \* Payment rows, in id order
    apc,         \* admin payment update -> position in the handler
    aorder,      \* admin payment update -> request.data["order_id"] (0: absent)
    astatus,     \* admin payment update -> request.data["status"] ("": absent)
    apay,        \* admin payment update -> id of the Payment it loaded (0: none)
    aresult,     \* admin payment update -> the last response ("none": no response yet)
    apk,         \* admin payment update -> the pk of the URL path (0: no request)
    preq,        \* payment-creation request -> [pc, user, via, body, result]
    resp,        \* the last response of the order list and retrieve endpoints
    accounts,    \* User rows: id -> [is_active, is_staff]
    meresp,      \* user -> the status codes of their DELETE /me/ calls, in order
    product_seq, \* the last id the products table has handed out
    edit,        \* admin product update -> [pc, product, row, data]
    password,    \* user -> the password hash of the User row
    outbox,      \* the password-reset mails sent: [to, uid, token]
    rresp        \* the last response of the reset request, by email, and of the confirm

reqVars == <<pc, user, key, cart, pmap, started, result, ret>>

dbVars == <<products, orders, addresses>>

adminVars == <<apc, aorder, astatus, apay, aresult, apk>>

laterVars == <<edit, password, outbox, rresp>>

otherVars == <<preq, resp, accounts, meresp, product_seq, laterVars>>

vars == <<products, orders, addresses, clock, reqVars, payments, adminVars, otherVars>>

-----------------------------------------------------------------------------
(* Bounds of the model *)

NumReq == 2

NumUsers == 2

NumKeys == 1

MaxLines == 2

MaxQty == 2

MaxStock == 2

NumAdmins == 2

NumPayReq == 2

MaxProductId == 4

MaxDeletes == 4

MaxMails == 2

MaxResets == 2

MaxTicks == 2

ResetTimeout == 1

NumEdits == 1

-----------------------------------------------------------------------------
(* Program constants *)

TaxRatePercent == 16

ShippingFee == 500

FreeShippingFrom == 10000

-----------------------------------------------------------------------------
(* The catalog the requests run against *)

Reqs == DOMAIN pc

Users == 1..NumUsers

NoKey == 0

Keys == 0..NumKeys

Admins == 1..NumAdmins

\* the one staff account; the accounts of Users are customers
StaffUser == NumUsers + 1

Accounts == Users \cup {StaffUser}

InitAccounts == [u \in Accounts |-> [is_active |-> TRUE, is_staff |-> u = StaffUser]]

NoUser == 0

\* a payment-creation request that has not arrived
IdlePayReq == [pc |-> "idle", user |-> NoUser, via |-> "", body |-> <<>>, result |-> "none"]

NoResponse == [action |-> "none", user |-> NoUser, id |-> 0, status |-> 0, ids |-> {}]

\* Products 1 and 2 are active, product 3 exists and is inactive, id 4 names no row.
ProductIds == {1, 2, 3}

RequestedIds == {1, 2, 3, 4}

InitProducts ==
    [p \in ProductIds |->
        CASE p = 1 -> [name |-> "Chair", stock |-> MaxStock, price |-> 1000, is_active |-> TRUE]
          [] p = 2 -> [name |-> "Desk", stock |-> 1, price |-> 500, is_active |-> TRUE]
          [] OTHER -> [name |-> "Shelf", stock |-> MaxStock, price |-> 5000, is_active |-> FALSE]]

\* Cart lines: any quantity of a product on sale; one unit of an id that matches no
\* active row (the handler never reads the quantity of such a line).
Lines ==
    {l \in [product_id : RequestedIds, quantity : 1..MaxQty] :
        l.quantity = 1 \/ (l.product_id \in ProductIds /\ InitProducts[l.product_id].is_active)}

RECURSIVE SeqsUpTo(_, _)
SeqsUpTo(S, n) ==
    IF n = 0 THEN {<<>>}
    ELSE LET shorter == SeqsUpTo(S, n - 1)
         IN  shorter \cup {Append(s, x) : s \in {t \in shorter : Len(t) = n - 1}, x \in S}

Carts == SeqsUpTo(Lines, MaxLines)

EmptyMap == [p \in {} |-> 0]

-----------------------------------------------------------------------------
(* Decimal arithmetic *)

\* Decimal.quantize under the default context (ROUND_HALF_EVEN): n / scale to the
\* nearest integer, a tie going to the even neighbour.
Quantize(n, scale) ==
    LET q == n \div scale
        rem == n % scale
    IN  IF 2 * rem > scale THEN q + 1
        ELSE IF 2 * rem < scale THEN q
        ELSE IF q % 2 = 0 THEN q ELSE q + 1

\* tax, shipping, discount and grand total of a subtotal (cents)
TaxTotal(subtotal) == Quantize(subtotal * TaxRatePercent, 100)

ShippingTotalInclusive(subtotal) == IF subtotal <= FreeShippingFrom THEN ShippingFee ELSE 0

ShippingTotal(subtotal) == IF subtotal < FreeShippingFrom THEN ShippingFee ELSE 0

DiscountTotal == 0

\* OrderCreateSerializer.currency: the default of the field
DefaultCurrency == "USD"

GrandTotal(subtotal) ==
    Quantize(subtotal - DiscountTotal + TaxTotal(subtotal) + ShippingTotal(subtotal), 1)

LineTotalOfOne(price, qty) == Quantize(price, 1)

\* (p.price * qty).quantize(Decimal("0.01"))
LineTotal(price, qty) == Quantize(price * qty, 1)

-----------------------------------------------------------------------------
(* OrderCreateSerializer.create, after the idempotency lookup *)

\* product_ids: one entry per cart line, duplicates kept
ProductIdList(items) == [i \in 1..Len(items) |-> items[i].product_id]

\* the rows of Product.objects.filter(id__in=product_ids, is_active=True)
Matching(rows, items) ==
    {p \in DOMAIN rows : rows[p].is_active /\ \E i \in 1..Len(items) : items[i].product_id = p}

\* the stock check and name and price snapshot loop: stops at the first line short of
\* stock
RECURSIVE PrepareItems(_, _, _, _)
PrepareItems(items, pm, i, acc) ==
    IF i > Len(items) THEN acc
    ELSE LET p == pm[items[i].product_id]
             qty == items[i].quantity
             line_total == LineTotal(p.price, qty)
         IN  IF p.stock < qty
             THEN [acc EXCEPT !.ok = FALSE]
             ELSE PrepareItems(items, pm, i + 1,
                      [ok |-> TRUE,
                       subtotal |-> acc.subtotal + line_total,
                       items |-> Append(acc.items,
                                    [product |-> items[i].product_id,
                                     name |-> p.name,
                                     unit_price |-> p.price,
                                     quantity |-> qty,
                                     line_total |-> line_total])])

\* the quantity taken off the in-memory product p by `p.stock -= qty`
RECURSIVE Taken(_, _)
Taken(prepared, p) ==
    IF prepared = <<>> THEN 0
    ELSE (IF Head(prepared).product = p THEN Head(prepared).quantity ELSE 0)
         + Taken(Tail(prepared), p)

BulkUpdateStockByOne(rows, pm, prepared) ==
    [p \in DOMAIN rows |->
        IF p \in DOMAIN pm THEN [rows[p] EXCEPT !.stock = pm[p].stock - 1] ELSE rows[p]]

\* Product.objects.bulk_update(products, ["stock"]): the stock column of the rows
\* that were read, set to the in-memory values
BulkUpdateStock(rows, pm, prepared) ==
    [p \in DOMAIN rows |->
        IF p \in DOMAIN pm
        THEN [rows[p] EXCEPT !.stock = pm[p].stock - Taken(prepared, p)]
        ELSE rows[p]]

UniqueViolationKeyOnly(rows, order) ==
    \E o \in 1..Len(rows) :
        order.idempotency_key # NoKey /\ rows[o].idempotency_key = order.idempotency_key

UniqueViolationNumberOnly(rows, order) ==
    \E o \in 1..Len(rows) : rows[o].number = order.number

\* the unique constraints of Order.number and Order.idempotency_key
UniqueViolation(rows, order) ==
    \E o \in 1..Len(rows) :
        \/ rows[o].number = order.number
        \/ order.idempotency_key # NoKey /\ rows[o].idempotency_key = order.idempotency_key

\* _generate_order_number: year, month, day, hour, minute, second and the first three
\* digits of the microseconds of now(), so one number per millisecond
GenerateOrderNumber(now) == now

\* lines 70-131 on the store db, with product_map = pm: the outcome, the store as
\* written so far, and the id of the new Order
PlaceOrder(db, u, k, items, pm, now) ==
    IF Cardinality(DOMAIN pm) # Len(ProductIdList(items))
    THEN [result |-> "invalid_products", db |-> db, id |-> 0]
    ELSE LET prep == PrepareItems(items, pm, 1, [ok |-> TRUE, subtotal |-> 0, items |-> <<>>])
         IN  IF ~prep.ok
             THEN [result |-> "insufficient_stock", db |-> db, id |-> 0]
             ELSE LET withAddr == [db EXCEPT !.addresses = @ + 2]
                      order == [user |-> u,
                                number |-> GenerateOrderNumber(now),
                                status |-> "PENDING",
                                currency |-> DefaultCurrency,
                                shipping_address |-> db.addresses + 1,
                                billing_address |-> db.addresses + 2,
                                subtotal |-> prep.subtotal,
                                discount_total |-> DiscountTotal,
                                tax_total |-> TaxTotal(prep.subtotal),
                                shipping_total |-> ShippingTotal(prep.subtotal),
                                grand_total |-> GrandTotal(prep.subtotal),
                                idempotency_key |-> k,
                                items |-> prep.items]
                  IN  IF UniqueViolation(db.orders, order)
                      THEN [result |-> "integrity_error", db |-> withAddr, id |-> 0]
                      ELSE [result |-> "created",
                            db |-> [withAddr EXCEPT
                                       !.orders = Append(@, order),
                                       !.products = BulkUpdateStock(@, pm, prep.items)],
                            id |-> Len(db.orders) + 1]

AtomicOff(before, out) == out.db

\* @transaction.atomic: the writes of a call that raised are rolled back
Atomic(before, out) == IF out.result = "created" THEN out.db ELSE before

ExistingOrderNever(rows, u, k) == 0

\* the existing Order of this user with this key, 0 when there is none
ExistingOrder(rows, u, k) ==
    IF \E o \in 1..Len(rows) : rows[o].idempotency_key = k /\ rows[o].user = u
    THEN CHOOSE o \in 1..Len(rows) :
             /\ rows[o].idempotency_key = k /\ rows[o].user = u
             /\ \A o2 \in 1..Len(rows) :
                    rows[o2].idempotency_key = k /\ rows[o2].user = u => o <= o2
    ELSE 0

-----------------------------------------------------------------------------
(* Row locks of select_for_update *)

Holders(p) == {r \in Reqs : pc[r] = "locking" /\ p \in DOMAIN pmap[r]}

CanLockUnlocked(r, p) == TRUE

\* FOR UPDATE: a row is read once no other transaction holds its lock
CanLock(r, p) == Holders(p) \subseteq {r}

Remaining(r) == Matching(products, cart[r]) \ DOMAIN pmap[r]

LockableAny(r) == Remaining(r)

\* Product.Meta.ordering = ["-created_at"]: the query is ORDER BY created_at DESC FOR
\* UPDATE, so its rows are locked newest first.  Rows are created in id order.
Lockable(r) == {p \in Remaining(r) : \A q \in Remaining(r) : q <= p}

Blocked(r) ==
    /\ pc[r] = "locking"
    /\ Remaining(r) # {}
    /\ \A p \in Lockable(r) : ~CanLock(r, p)

WaitsFor(r, r2) ==
    /\ r # r2
    /\ Blocked(r)
    /\ Blocked(r2)
    /\ \E p \in Remaining(r) : r2 \in Holders(p)

RECURSIVE WaitClosure(_, _)
WaitClosure(S, n) ==
    IF n = 0 THEN S
    ELSE WaitClosure(S \cup {r2 \in Reqs : \E r \in S : WaitsFor(r, r2)}, n - 1)

\* r waits, through other waiting transactions, for a row it holds itself
Deadlocked(r) ==
    \E r2 \in Reqs : WaitsFor(r, r2) /\ r \in WaitClosure({r2}, Cardinality(Reqs))

-----------------------------------------------------------------------------
(* The steps of an order-creation request *)

\* OrderCreateSerializer.validate: the cart holds at least one line
Validate(items) == items # <<>>

Finished(r, res, id) ==
    /\ pc' = [pc EXCEPT ![r] = "done"]
    /\ result' = [result EXCEPT ![r] = res]
    /\ ret' = [ret EXCEPT ![r] = id]
    /\ user' = [user EXCEPT ![r] = 0]
    /\ key' = [key EXCEPT ![r] = NoKey]
    /\ cart' = [cart EXCEPT ![r] = <<>>]
    /\ pmap' = [pmap EXCEPT ![r] = EmptyMap]
    /\ started' = [started EXCEPT ![r] = 0]

\* POST /orders/ arrives: user u, Idempotency-Key k, items c
Submit(r, u, k, c) ==
    /\ pc[r] = "idle"
    /\ \A r2 \in Reqs : r2 < r => pc[r2] # "idle"
    /\ pc' = [pc EXCEPT ![r] = "create"]
    /\ user' = [user EXCEPT ![r] = u]
    /\ key' = [key EXCEPT ![r] = k]
    /\ cart' = [cart EXCEPT ![r] = c]
    /\ started' = [started EXCEPT ![r] = Len(orders)]
    /\ UNCHANGED <<pmap, result, ret, products, orders, addresses, clock>>
    /\ UNCHANGED <<payments, adminVars, otherVars>>

\* is_valid, then create, lines 60-68: the idempotency lookup
Begin(r) ==
    /\ pc[r] = "create"
    /\ LET existing == IF key[r] # NoKey THEN ExistingOrder(orders, user[r], key[r]) ELSE 0
       IN  IF ~Validate(cart[r])
           THEN Finished(r, "empty_cart", 0)
           ELSE IF existing # 0
           THEN Finished(r, "existing", existing)
           ELSE /\ pc' = [pc EXCEPT ![r] = "locking"]
                /\ UNCHANGED <<user, key, cart, pmap, started, result, ret>>
    /\ UNCHANGED <<products, orders, addresses, clock>>
    /\ UNCHANGED <<payments, adminVars, otherVars>>

\* create, lines 72-74: one row of the select_for_update query is locked and read
LockRow(r, p) ==
    /\ pc[r] = "locking"
    /\ p \in Lockable(r)
    /\ CanLock(r, p)
    /\ pmap' = [pmap EXCEPT ![r] =
                   [q \in DOMAIN pmap[r] \cup {p} |->
                       IF q = p THEN products[p] ELSE pmap[r][q]]]
    /\ UNCHANGED <<pc, user, key, cart, started, result, ret,
                   products, orders, addresses, clock>>
    /\ UNCHANGED <<payments, adminVars, otherVars>>

\* create, lines 75-131, and the end of the transaction
Finish(r, now) ==
    /\ pc[r] = "locking"
    /\ Remaining(r) = {}
    /\ LET db == [products |-> products, orders |-> orders, addresses |-> addresses]
           out == PlaceOrder(db, user[r], key[r], cart[r], pmap[r], now)
           after == Atomic(db, out)
       IN  /\ products' = after.products
           /\ orders' = after.orders
           /\ addresses' = after.addresses
           /\ Finished(r, out.result, out.id)
    /\ clock' = now
    /\ UNCHANGED <<payments, adminVars, otherVars>>

-----------------------------------------------------------------------------
(* Concurrent order creation over the catalog *)

InitReqs(R) ==
    /\ pc = [r \in R |-> "idle"]
    /\ user = [r \in R |-> 0]
    /\ key = [r \in R |-> NoKey]
    /\ cart = [r \in R |-> <<>>]
    /\ pmap = [r \in R |-> EmptyMap]
    /\ started = [r \in R |-> 0]
    /\ result = [r \in R |-> "none"]
    /\ ret = [r \in R |-> 0]

InitAdmins ==
    /\ apc = [a \in Admins |-> "idle"]
    /\ aorder = [a \in Admins |-> 0]
    /\ astatus = [a \in Admins |-> ""]
    /\ apay = [a \in Admins |-> 0]
    /\ aresult = [a \in Admins |-> "none"]
    /\ apk = [a \in Admins |-> 0]

\* an admin product update that has not arrived
IdleEdit == [pc |-> "idle", product |-> 0, row |-> <<>>, data |-> <<>>]

NoResetResponse == [status |-> 0, detail |-> ""]

\* User.email: one address per account, and an address of no account
EmailOf(u) == <<"user", u>>

UnknownEmail == <<"nobody", NoUser>>

ResetEmails == {EmailOf(u) : u \in Users} \cup {UnknownEmail}

\* User.password before any set_password of the model: a hash of some raw password
\* under some salt
InitialHash == [raw |-> "initial", salt |-> 0]

InitLater ==
    /\ edit = [e \in 1..NumEdits |-> IdleEdit]
    /\ password = [u \in Accounts |-> InitialHash]
    /\ outbox = {}
    /\ rresp = [request |-> [e \in ResetEmails |-> NoResetResponse],
                confirm |-> NoResetResponse]

InitOther ==
    /\ preq = [q \in 1..NumPayReq |-> IdlePayReq]
    /\ resp = NoResponse
    /\ accounts = InitAccounts
    /\ meresp = [u \in Accounts |-> <<>>]
    /\ product_seq = Cardinality(ProductIds)
    /\ InitLater

Init ==
    /\ products = InitProducts
    /\ orders = <<>>
    /\ addresses = 0
    /\ clock = 0
    /\ InitReqs(1..NumReq)
    /\ payments = <<>>
    /\ InitAdmins
    /\ InitOther

Next ==
    \/ \E r \in Reqs, u \in Users, k \in Keys, c \in Carts : Submit(r, u, k, c)
    \/ \E r \in Reqs : Begin(r)
    \/ \E r \in Reqs, p \in ProductIds : LockRow(r, p)
    \/ \E r \in Reqs, now \in {clock, clock + 1} : Finish(r, now)

Spec == Init /\ [][Next]_vars

-----------------------------------------------------------------------------
(* Payments *)

\* order.payment: the id of the Payment row of Order oid, 0 when there is none
PaymentOf(rows, oid) ==
    IF \E i \in 1..Len(rows) : rows[i].order = oid
    THEN CHOOSE i \in 1..Len(rows) : rows[i].order = oid
    ELSE 0

\* the request body of POST /payments/: the order, and whatever the client put in the
\* fields the serializer declares read-only ("" and 0: absent)
BlankBody(oid) == [order |-> oid, amount |-> 0, currency |-> "", status |-> "", user |-> NoUser]

ForgedBody(oid, u) ==
    [order |-> oid, amount |-> 1, currency |-> "EUR", status |-> "SUCCESS", user |-> u]

\* PaymentSerializer.Meta.read_only_fields: the fields of the body that reach
\* validated_data
ValidatedData(body) == [order |-> body.order]

\* is_valid: the order exists (PrimaryKeyRelatedField over Order.objects.all()) and has
\* no Payment (the unique validator of the one-to-one field)
PaymentErrors(body, orderRows, paymentRows) ==
    IF body.order \notin 1..Len(orderRows) THEN "400_invalid_order"
    ELSE IF PaymentOf(paymentRows, body.order) # 0 THEN "400_order_has_payment"
    ELSE "ok"

NewPaymentFromBody(u, body, orderRows) ==
    [order |-> body.order,
     user |-> u,
     amount |-> IF body.amount # 0 THEN body.amount ELSE orderRows[body.order].grand_total,
     currency |-> orderRows[body.order].currency,
     status |-> "PENDING"]

\* perform_create and PaymentSerializer.create: the row that is inserted
NewPayment(u, body, orderRows) ==
    LET validated == ValidatedData(body)
        order == orderRows[validated.order]
    IN  [order |-> validated.order,
         user |-> u,
         amount |-> order.grand_total,
         currency |-> order.currency,
         status |-> "PENDING"]

PaymentUniqueNever(rows, oid) == FALSE

\* the unique constraint of the one-to-one Payment.order
PaymentUniqueViolation(rows, oid) == \E i \in 1..Len(rows) : rows[i].order = oid

\* POST /payments/ as one step: the request of user u for Order oid
CreatePayment(u, oid) ==
    /\ PaymentErrors(BlankBody(oid), orders, payments) = "ok"
    /\ payments' = Append(payments, NewPayment(u, BlankBody(oid), orders))
    /\ UNCHANGED <<products, orders, addresses, clock, reqVars, otherVars, adminVars>>

MarkSuccessfulPaymentOnly(i) ==
    /\ i \in 1..Len(payments)
    /\ payments' = [payments EXCEPT ![i].status = "SUCCESS"]
    /\ UNCHANGED <<products, orders, addresses, clock, reqVars, otherVars, adminVars>>

\* Payment.mark_successful
MarkSuccessful(i) ==
    /\ i \in 1..Len(payments)
    /\ payments' = [payments EXCEPT ![i].status = "SUCCESS"]
    /\ orders' = [orders EXCEPT ![payments[i].order].status = "PAID"]
    /\ UNCHANGED <<products, addresses, clock, reqVars, otherVars, adminVars>>

\* Payment.mark_failed
MarkFailed(i) ==
    /\ i \in 1..Len(payments)
    /\ payments' = [payments EXCEPT ![i].status = "FAILED"]
    /\ UNCHANGED <<products, orders, addresses, clock, reqVars, otherVars, adminVars>>

-----------------------------------------------------------------------------
(* AdminPaymentViewSet.update *)

StatusInputs == {"", "PAID", "REFUNDED", "SUCCESS"}

\* Payment.Status
PaymentStatuses == {"PENDING", "SUCCESS", "FAILED", "REFUNDED"}

RefundNeverRefused(status_value, current) == FALSE

AnyTargetRefused(status_value, current) == current # "PAID"

\* line 329: a refund of a payment whose status is not PAID is refused
RefundRefused(status_value, current) == status_value = "REFUNDED" /\ current # "PAID"

\* lines 303-333: the response the checks end the request with ("ok": none, the
\* request goes on to the writes)
AdminCheck(order_id, status_value, orderRows, paymentRows) ==
    IF order_id = 0 \/ status_value = "" THEN "400_required"
    ELSE IF order_id \notin 1..Len(orderRows) \/ PaymentOf(paymentRows, order_id) = 0
    THEN "404_not_found"
    ELSE IF status_value \notin {"PAID", "REFUNDED"} THEN "400_bad_status"
    ELSE IF RefundRefused(status_value, paymentRows[PaymentOf(paymentRows, order_id)].status)
    THEN "400_not_paid"
    ELSE "ok"

Rejections == {"400_required", "404_not_found", "400_bad_status", "400_not_paid"}

AdminAnswered(a, code) ==
    /\ apc' = [apc EXCEPT ![a] = "idle"]
    /\ aresult' = [aresult EXCEPT ![a] = code]
    /\ aorder' = [aorder EXCEPT ![a] = 0]
    /\ astatus' = [astatus EXCEPT ![a] = ""]
    /\ apay' = [apay EXCEPT ![a] = 0]
    /\ apk' = [apk EXCEPT ![a] = 0]

\* PUT /payments/admin/{pk}/ arrives with order_id and status in its body
AdminSubmit(a, pk, order_id, status_value) ==
    /\ apc[a] = "idle"
    /\ apc' = [apc EXCEPT ![a] = "update"]
    /\ apk' = [apk EXCEPT ![a] = pk]
    /\ aorder' = [aorder EXCEPT ![a] = order_id]
    /\ astatus' = [astatus EXCEPT ![a] = status_value]
    /\ aresult' = [aresult EXCEPT ![a] = "none"]
    /\ UNCHANGED <<apay, payments, products, orders, addresses, clock, reqVars, otherVars>>

LoadedPaymentByPath(rows, order_id, pk) ==
    IF pk \in 1..Len(rows) THEN pk ELSE PaymentOf(rows, order_id)

\* lines 313-314: payment = order.payment; kwargs["pk"] is never read
LoadedPayment(rows, order_id, pk) == PaymentOf(rows, order_id)

\* update, lines 303-333: the checks, and the Order and Payment are loaded
AdminLoad(a) ==
    /\ apc[a] = "update"
    /\ LET code == AdminCheck(aorder[a], astatus[a], orders, payments)
       IN  IF code = "ok"
           THEN /\ apc' = [apc EXCEPT ![a] = "save_payment"]
                /\ apay' = [apay EXCEPT ![a] = LoadedPayment(payments, aorder[a], apk[a])]
                /\ UNCHANGED <<aorder, astatus, aresult, apk>>
           ELSE AdminAnswered(a, code)
    /\ UNCHANGED <<payments, products, orders, addresses, clock, reqVars, otherVars>>

\* update, lines 336-337: payment.save(update_fields=["status", "updated_at"])
AdminSavePayment(a) ==
    /\ apc[a] = "save_payment"
    /\ payments' = [payments EXCEPT ![apay[a]].status = astatus[a]]
    /\ apc' = [apc EXCEPT ![a] = "save_order"]
    /\ UNCHANGED <<aorder, astatus, apay, aresult, apk>>
    /\ UNCHANGED <<products, orders, addresses, clock, reqVars, otherVars>>

\* update, lines 339-342: order.save(update_fields=["status", "updated_at"]), 200
AdminSaveOrder(a) ==
    /\ apc[a] = "save_order"
    /\ orders' = [orders EXCEPT ![aorder[a]].status = astatus[a]]
    /\ AdminAnswered(a, "200_ok")
    /\ UNCHANGED <<payments, products, addresses, clock, reqVars, otherVars>>

-----------------------------------------------------------------------------
(* Payment operations on two placed orders.  Every admin update is sent to the path
   that carries the number of its body. *)

\* the store after user a ordered one unit of product 1 and user b one of product 2
PlacedOrdersBy(a, b) ==
    LET db0 == [products |-> InitProducts, orders |-> <<>>, addresses |-> 0]
        first == PlaceOrder(db0, a, NoKey, <<[product_id |-> 1, quantity |-> 1]>>,
                            [p \in {1} |-> db0.products[p]], 1)
        second == PlaceOrder(first.db, b, NoKey, <<[product_id |-> 2, quantity |-> 1]>>,
                             [p \in {2} |-> first.db.products[p]], 2)
    IN  second.db

PlacedOrders == PlacedOrdersBy(1, 2)

InitPay ==
    /\ products = PlacedOrders.products
    /\ orders = PlacedOrders.orders
    /\ addresses = PlacedOrders.addresses
    /\ clock = 2
    /\ InitReqs(1..NumReq)
    /\ payments = <<>>
    /\ InitAdmins
    /\ InitOther

NextPay ==
    \/ \E oid \in 1..Len(orders) : CreatePayment(orders[oid].user, oid)
    \/ \E i \in 1..Len(payments) : MarkSuccessful(i)
    \/ \E i \in 1..Len(payments) : MarkFailed(i)
    \/ \E a \in Admins, oid \in 0..(Len(orders) + 1), sv \in StatusInputs :
           AdminSubmit(a, oid, oid, sv)
    \/ \E a \in Admins : AdminLoad(a)
    \/ \E a \in Admins : AdminSavePayment(a)
    \/ \E a \in Admins : AdminSaveOrder(a)

SpecPay == InitPay /\ [][NextPay]_vars

-----------------------------------------------------------------------------
(* A burst of single-unit orders for one product that is short of stock *)

NumBurst == 3

BurstStock == NumBurst - 1

UnitOfProduct1 == <<[product_id |-> 1, quantity |-> 1]>>

InitBurst ==
    /\ products = [InitProducts EXCEPT ![1].stock = BurstStock]
    /\ orders = <<>>
    /\ addresses = 0
    /\ clock = 0
    /\ pc = [r \in 1..NumBurst |-> "create"]
    /\ user \in [1..NumBurst -> Users]
    /\ key = [r \in 1..NumBurst |-> NoKey]
    /\ cart = [r \in 1..NumBurst |-> UnitOfProduct1]
    /\ pmap = [r \in 1..NumBurst |-> EmptyMap]
    /\ started = [r \in 1..NumBurst |-> 0]
    /\ result = [r \in 1..NumBurst |-> "none"]
    /\ ret = [r \in 1..NumBurst |-> 0]
    /\ payments = <<>>
    /\ InitAdmins
    /\ InitOther

NextBurst ==
    \/ \E r \in Reqs : Begin(r)
    \/ \E r \in Reqs, p \in ProductIds : LockRow(r, p)
    \/ \E r \in Reqs, now \in {clock, clock + 1} : Finish(r, now)

SpecBurst == InitBurst /\ [][NextBurst]_vars

-----------------------------------------------------------------------------
(* One order of one product, over every price *)

MaxPrice == 10100

InitTotals ==
    /\ \E price \in 1..MaxPrice : products = [InitProducts EXCEPT ![1].price = price]
    /\ orders = <<>>
    /\ addresses = 0
    /\ clock = 0
    /\ InitReqs({1})
    /\ payments = <<>>
    /\ InitAdmins
    /\ InitOther

NextTotals ==
    \/ \E r \in Reqs, q \in 1..MaxQty :
           Submit(r, 1, NoKey, <<[product_id |-> 1, quantity |-> q]>>)
    \/ \E r \in Reqs : Begin(r)
    \/ \E r \in Reqs, p \in ProductIds : LockRow(r, p)
    \/ \E r \in Reqs, now \in {clock, clock + 1} : Finish(r, now)

SpecTotals == InitTotals /\ [][NextTotals]_vars

-----------------------------------------------------------------------------
(* Payment creation, request by request, on two placed orders *)

\* the bodies sent: an Order that exists or the id after the last one, alone or with
\* every read-only field filled in
PayBodies ==
    {BlankBody(o) : o \in 1..(Len(orders) + 1)}
        \cup {ForgedBody(o, u) : o \in 1..(Len(orders) + 1), u \in Users}

\* CustomerPaymentViewSet needs an authenticated user, AdminPaymentViewSet a staff one
PaymentPermission(via, u) == via = "admin" => accounts[u].is_staff

\* POST arrives at endpoint via from user u: permissions, then serializer.is_valid
PayArrive(q, u, via, body) ==
    /\ preq[q].pc = "idle"
    /\ \A q2 \in DOMAIN preq : q2 < q => preq[q2].pc # "idle"
    /\ LET code == IF ~PaymentPermission(via, u) THEN "403_forbidden"
                   ELSE PaymentErrors(body, orders, payments)
       IN  preq' = [preq EXCEPT ![q] =
                       [pc |-> IF code = "ok" THEN "validated" ELSE "done",
                        user |-> u,
                        via |-> via,
                        body |-> body,
                        result |-> IF code = "ok" THEN "none" ELSE code]]
    /\ UNCHANGED <<products, orders, addresses, clock, reqVars, payments, adminVars>>
    /\ UNCHANGED <<resp, accounts, meresp, product_seq, laterVars>>

\* serializer.save(): the INSERT, refused by the unique constraint when the Order got a
\* Payment since the validation
PayInsert(q) ==
    /\ preq[q].pc = "validated"
    /\ IF PaymentUniqueViolation(payments, preq[q].body.order)
       THEN /\ preq' = [preq EXCEPT ![q].pc = "done", ![q].result = "500_integrity_error"]
            /\ UNCHANGED payments
       ELSE /\ preq' = [preq EXCEPT ![q].pc = "done", ![q].result = "201_created"]
            /\ payments' = Append(payments, NewPayment(preq[q].user, preq[q].body, orders))
    /\ UNCHANGED <<products, orders, addresses, clock, reqVars, adminVars>>
    /\ UNCHANGED <<resp, accounts, meresp, product_seq, laterVars>>

\* the second Order was placed in another currency
InitPayCreate ==
    /\ products = PlacedOrders.products
    /\ orders = [PlacedOrders.orders EXCEPT ![2].currency = "KES"]
    /\ addresses = PlacedOrders.addresses
    /\ clock = 2
    /\ InitReqs(1..NumReq)
    /\ payments = <<>>
    /\ InitAdmins
    /\ InitOther

NextPayCreate ==
    \/ \E q \in DOMAIN preq, u \in Accounts, via \in {"customer", "admin"}, body \in PayBodies :
           PayArrive(q, u, via, body)
    \/ \E q \in DOMAIN preq : PayInsert(q)

SpecPayCreate == InitPayCreate /\ [][NextPayCreate]_vars

-----------------------------------------------------------------------------
(* The order list and retrieve endpoints *)

GetQuerysetAll(rows, u) == 1..Len(rows)

\* OrderViewSet.get_queryset: every Order for staff, the caller's own otherwise
GetQueryset(rows, u) ==
    {o \in 1..Len(rows) : accounts[u].is_staff \/ rows[o].user = u}

\* IsOwnerOrAdmin.has_object_permission
IsOwnerOrAdmin(u, order) == accounts[u].is_staff \/ order.user = u

\* GET /orders/ by user u
ListOrders(u) ==
    /\ resp' = [action |-> "list", user |-> u, id |-> 0, status |-> 200,
                ids |-> GetQueryset(orders, u)]
    /\ UNCHANGED <<products, orders, addresses, clock, reqVars, payments, adminVars>>
    /\ UNCHANGED <<preq, accounts, meresp, product_seq, laterVars>>

\* GET /orders/{id}/ by user u: get_object looks the id up in get_queryset (404), then
\* checks the object permission (403)
RetrieveOrder(u, id) ==
    /\ resp' = IF id \notin GetQueryset(orders, u)
               THEN [action |-> "retrieve", user |-> u, id |-> id, status |-> 404, ids |-> {}]
               ELSE IF ~IsOwnerOrAdmin(u, orders[id])
               THEN [action |-> "retrieve", user |-> u, id |-> id, status |-> 403, ids |-> {}]
               ELSE [action |-> "retrieve", user |-> u, id |-> id, status |-> 200, ids |-> {id}]
    /\ UNCHANGED <<products, orders, addresses, clock, reqVars, payments, adminVars>>
    /\ UNCHANGED <<preq, accounts, meresp, product_seq, laterVars>>

\* two Orders, each placed by any account
InitRead ==
    /\ \E a, b \in Accounts :
           /\ products = PlacedOrdersBy(a, b).products
           /\ orders = PlacedOrdersBy(a, b).orders
           /\ addresses = PlacedOrdersBy(a, b).addresses
    /\ clock = 2
    /\ InitReqs(1..NumReq)
    /\ payments = <<>>
    /\ InitAdmins
    /\ InitOther

NextRead ==
    \/ \E u \in Accounts : ListOrders(u)
    \/ \E u \in Accounts, id \in 1..(Len(orders) + 1) : RetrieveOrder(u, id)

SpecRead == InitRead /\ [][NextRead]_vars

-----------------------------------------------------------------------------
(* ProductViewSet: the admin's create, update, partial update and delete, beside one
   order creation.  The read and the write of an update are one step here; the
   section on admin product updates in two steps separates them. *)

\* the body of a product create or update, as far as orders read the row
ProductData == [name : {"Lamp"}, stock : 0..MaxStock, price : {1000}, is_active : BOOLEAN]

\* the fields a partial update may carry
ProductPatches ==
    [field : {"stock"}, value : 0..MaxStock] \cup [field : {"is_active"}, value : BOOLEAN]

\* ProductViewSet.queryset: update and delete find active rows only (else 404), and
\* wait for a row that an order creation has locked
Editable(p) == p \in DOMAIN products /\ products[p].is_active /\ Holders(p) = {}

\* an OrderItem row references product p (on_delete=PROTECT)
Referenced(rows, p) ==
    \E o \in 1..Len(rows) : \E i \in 1..Len(rows[o].items) : rows[o].items[i].product = p

\* POST /products/
CreateProduct(data) ==
    /\ product_seq < MaxProductId
    /\ product_seq' = product_seq + 1
    /\ products' = [q \in DOMAIN products \cup {product_seq + 1} |->
                       IF q = product_seq + 1 THEN data ELSE products[q]]
    /\ UNCHANGED <<orders, addresses, clock, reqVars, payments, adminVars>>
    /\ UNCHANGED <<preq, resp, accounts, meresp, laterVars>>

\* PUT /products/{p}/
UpdateProduct(p, data) ==
    /\ Editable(p)
    /\ products' = [products EXCEPT ![p] = data]
    /\ UNCHANGED <<orders, addresses, clock, reqVars, payments, adminVars, otherVars>>

\* PATCH /products/{p}/
PartialUpdateProduct(p, patch) ==
    /\ Editable(p)
    /\ products' = IF patch.field = "stock"
                   THEN [products EXCEPT ![p].stock = patch.value]
                   ELSE [products EXCEPT ![p].is_active = patch.value]
    /\ UNCHANGED <<orders, addresses, clock, reqVars, payments, adminVars, otherVars>>

DestroyProductClearingStock(p) ==
    /\ Editable(p)
    /\ products' = [products EXCEPT ![p].is_active = FALSE, ![p].stock = 0]
    /\ UNCHANGED <<orders, addresses, clock, reqVars, payments, adminVars, otherVars>>

DestroyProductCascade(p) ==
    /\ Editable(p)
    /\ products' = [q \in DOMAIN products \ {p} |-> products[q]]
    /\ orders' = [o \in 1..Len(orders) |->
                     [orders[o] EXCEPT !.items = SelectSeq(@, LAMBDA it : it.product # p)]]
    /\ UNCHANGED <<addresses, clock, reqVars, payments, adminVars, otherVars>>

\* DELETE /products/{p}/: ModelViewSet.destroy deletes the row, unless an OrderItem
\* protects it (the delete raises and nothing is written)
DestroyProduct(p) ==
    /\ Editable(p)
    /\ products' = IF Referenced(orders, p)
                   THEN products
                   ELSE [q \in DOMAIN products \ {p} |-> products[q]]
    /\ UNCHANGED <<orders, addresses, clock, reqVars, payments, adminVars, otherVars>>

\* the carts of one line, and one cart of two
CatalogCarts ==
    {c \in Carts : Len(c) = 1}
        \cup {<<[product_id |-> 1, quantity |-> 1], [product_id |-> 2, quantity |-> 1]>>}

InitCatalog ==
    /\ products = InitProducts
    /\ orders = <<>>
    /\ addresses = 0
    /\ clock = 0
    /\ InitReqs({1})
    /\ payments = <<>>
    /\ InitAdmins
    /\ InitOther

NextCatalog ==
    \/ \E r \in Reqs, c \in CatalogCarts : Submit(r, 1, NoKey, c)
    \/ \E r \in Reqs : Begin(r)
    \/ \E r \in Reqs, p \in DOMAIN products : LockRow(r, p)
    \/ \E r \in Reqs : Finish(r, clock + 1)
    \/ \E data \in ProductData : CreateProduct(data)
    \/ \E p \in DOMAIN products, data \in ProductData : UpdateProduct(p, data)
    \/ \E p \in DOMAIN products, patch \in ProductPatches : PartialUpdateProduct(p, patch)
    \/ \E p \in DOMAIN products : DestroyProduct(p)

SpecCatalog == InitCatalog /\ [][NextCatalog]_vars

\* the same operations once two orders have been placed
InitSnapshot ==
    /\ products = PlacedOrders.products
    /\ orders = PlacedOrders.orders
    /\ addresses = PlacedOrders.addresses
    /\ clock = 2
    /\ InitReqs({1})
    /\ payments = <<>>
    /\ InitAdmins
    /\ InitOther

SpecSnapshot == InitSnapshot /\ [][NextCatalog]_vars

-----------------------------------------------------------------------------
(* MeView.destroy, on the accounts of two placed orders *)

NoContent == 204

DestroyMeHard(u) ==
    /\ u \in DOMAIN accounts
    /\ Len(meresp[u]) < MaxDeletes
    /\ accounts' = [a \in DOMAIN accounts \ {u} |-> accounts[a]]
    /\ meresp' = [meresp EXCEPT ![u] = Append(@, NoContent)]
    /\ UNCHANGED <<products, orders, addresses, clock, reqVars, payments, adminVars>>
    /\ UNCHANGED <<preq, resp, product_seq, laterVars>>

\* DELETE /me/ by user u: an inactive account is answered at once, an active one is
\* deactivated first
DestroyMe(u) ==
    /\ u \in DOMAIN accounts
    /\ Len(meresp[u]) < MaxDeletes
    /\ accounts' = IF ~accounts[u].is_active
                   THEN accounts
                   ELSE [accounts EXCEPT ![u].is_active = FALSE]
    /\ meresp' = [meresp EXCEPT ![u] = Append(@, NoContent)]
    /\ UNCHANGED <<products, orders, addresses, clock, reqVars, payments, adminVars>>
    /\ UNCHANGED <<preq, resp, product_seq, laterVars>>

\* each customer has an Order and its Payment
InitMe ==
    /\ products = PlacedOrders.products
    /\ orders = PlacedOrders.orders
    /\ addresses = PlacedOrders.addresses
    /\ clock = 2
    /\ InitReqs(1..NumReq)
    /\ payments = <<NewPayment(1, BlankBody(1), PlacedOrders.orders),
                    NewPayment(2, BlankBody(2), PlacedOrders.orders)>>
    /\ InitAdmins
    /\ InitOther

NextMe == \E u \in Accounts : DestroyMe(u)

SpecMe == InitMe /\ [][NextMe]_vars

-----------------------------------------------------------------------------
(* Concurrent order creations whose carts name the same products in any order *)

\* one unit of each of one or two products on sale, in either order
ContendedCarts ==
    {c \in SeqsUpTo([product_id : {1, 2}, quantity : {1}], 2) :
        c # <<>> /\ Cardinality({c[i].product_id : i \in 1..Len(c)}) = Len(c)}

InitLocks ==
    /\ products = InitProducts
    /\ orders = <<>>
    /\ addresses = 0
    /\ clock = 0
    /\ pc = [r \in 1..NumReq |-> "create"]
    /\ user \in [1..NumReq -> Users]
    /\ key = [r \in 1..NumReq |-> NoKey]
    /\ cart \in [1..NumReq -> ContendedCarts]
    /\ pmap = [r \in 1..NumReq |-> EmptyMap]
    /\ started = [r \in 1..NumReq |-> 0]
    /\ result = [r \in 1..NumReq |-> "none"]
    /\ ret = [r \in 1..NumReq |-> 0]
    /\ payments = <<>>
    /\ InitAdmins
    /\ InitOther

NextLocks ==
    \/ \E r \in Reqs : Begin(r)
    \/ \E r \in Reqs, p \in ProductIds : LockRow(r, p)
    \/ \E r \in Reqs : Finish(r, clock + 1)

\* Every request runs on a worker of its own and the store grants a free row lock to a
\* transaction that waits for it: a step that stays possible is taken.
FairLocks ==
    \A r \in 1..NumReq :
        /\ WF_vars(Begin(r))
        /\ WF_vars(\E p \in ProductIds : LockRow(r, p))
        /\ WF_vars(Finish(r, clock + 1))

SpecLocks == InitLocks /\ [][NextLocks]_vars /\ FairLocks

-----------------------------------------------------------------------------
(* Concurrent order creations that carry the same Idempotency-Key *)

InitRetry ==
    /\ products = InitProducts
    /\ orders = <<>>
    /\ addresses = 0
    /\ clock = 0
    /\ pc = [r \in 1..NumReq |-> "create"]
    /\ \E u \in Users : user = [r \in 1..NumReq |-> u]
    /\ key = [r \in 1..NumReq |-> 1]
    /\ cart \in [1..NumReq -> ContendedCarts]
    /\ pmap = [r \in 1..NumReq |-> EmptyMap]
    /\ started = [r \in 1..NumReq |-> 0]
    /\ result = [r \in 1..NumReq |-> "none"]
    /\ ret = [r \in 1..NumReq |-> 0]
    /\ payments = <<>>
    /\ InitAdmins
    /\ InitOther

SpecRetry == InitRetry /\ [][NextBurst]_vars

-----------------------------------------------------------------------------
(* Admin product updates in two steps, beside one order creation: UpdateModelMixin
   reads the row with get_object (a plain SELECT) and serializer.save() then writes
   every column of the instance it read *)

\* partial updates that carry no stock
StocklessPatches ==
    [field : {"price"}, value : {900}] \cup [field : {"name"}, value : {"Lamp"}]

\* serializer.update: the fields of the body set on the instance that was read
ApplyPatch(row, patch) == [row EXCEPT ![patch.field] = patch.value]

\* PATCH /products/{p}/, get_object: the row as it is now, without a lock
EditRead(e, p, patch) ==
    /\ edit[e].pc = "idle"
    /\ p \in DOMAIN products /\ products[p].is_active
    /\ edit' = [edit EXCEPT ![e] = [pc |-> "read", product |-> p, row |-> products[p],
                                    data |-> patch]]
    /\ UNCHANGED <<products, orders, addresses, clock, reqVars, payments, adminVars>>
    /\ UNCHANGED <<preq, resp, accounts, meresp, product_seq, password, outbox, rresp>>

\* PATCH /products/{p}/, instance.save(): an UPDATE of all columns, which waits for a
\* row lock held by an order creation
EditSave(e) ==
    /\ edit[e].pc = "read"
    /\ Holders(edit[e].product) = {}
    /\ products' = [products EXCEPT ![edit[e].product] = ApplyPatch(edit[e].row, edit[e].data)]
    /\ edit' = [edit EXCEPT ![e] = [IdleEdit EXCEPT !.pc = "done"]]
    /\ UNCHANGED <<orders, addresses, clock, reqVars, payments, adminVars>>
    /\ UNCHANGED <<preq, resp, accounts, meresp, product_seq, password, outbox, rresp>>

NextEditRace ==
    \/ \E r \in Reqs, c \in CatalogCarts : Submit(r, 1, NoKey, c)
    \/ \E r \in Reqs : Begin(r)
    \/ \E r \in Reqs, p \in DOMAIN products : LockRow(r, p)
    \/ \E r \in Reqs : Finish(r, clock + 1)
    \/ \E e \in DOMAIN edit, p \in DOMAIN products, patch \in StocklessPatches : EditRead(e, p, patch)
    \/ \E e \in DOMAIN edit : EditSave(e)

SpecEditRace == InitCatalog /\ [][NextEditRace]_vars

-----------------------------------------------------------------------------
(* Concurrent admin payment updates on two placed orders that have a Payment each,
   sent to any path *)

PaidFor ==
    LET first == NewPayment(PlacedOrders.orders[1].user, BlankBody(1), PlacedOrders.orders)
        second == NewPayment(PlacedOrders.orders[2].user, BlankBody(2), PlacedOrders.orders)
    IN  <<first, second>>

InitAdminUpdates ==
    /\ products = PlacedOrders.products
    /\ orders = PlacedOrders.orders
    /\ addresses = PlacedOrders.addresses
    /\ clock = 2
    /\ InitReqs(1..NumReq)
    /\ payments = PaidFor
    /\ InitAdmins
    /\ InitOther

NextAdminUpdates ==
    \/ \E a \in Admins, pk \in 1..(Len(payments) + 1), oid \in 0..(Len(orders) + 1),
          sv \in StatusInputs : AdminSubmit(a, pk, oid, sv)
    \/ \E a \in Admins : AdminLoad(a)
    \/ \E a \in Admins : AdminSavePayment(a)
    \/ \E a \in Admins : AdminSaveOrder(a)

SpecAdminUpdates == InitAdminUpdates /\ [][NextAdminUpdates]_vars

-----------------------------------------------------------------------------
(* Password reset: PasswordResetRequestView and PasswordResetConfirmView.  Time is the
   clock; a token lives ResetTimeout ticks.  Both serializers accept the bodies sent. *)

\* User.objects.get(email=email): the account of the address, NoUser when there is none
UserByEmail(email) ==
    IF \E u \in DOMAIN accounts : EmailOf(u) = email
    THEN CHOOSE u \in DOMAIN accounts : EmailOf(u) = email
    ELSE NoUser

\* urlsafe_base64_encode(force_bytes(user.pk))
EncodeUid(pk) == <<"b64", pk>>

\* a uid that is no base64 text of a number
GarbageUid == <<"text", NoUser>>

\* force_str(urlsafe_base64_decode(uid)) and the conversion of the pk: NoUser when
\* either raises ValueError
DecodeUid(uid) == IF uid[1] = "b64" THEN uid[2] ELSE NoUser

\* PasswordResetTokenGenerator.make_token: a signature over the user's pk, password
\* hash and the time of issue
MakeToken(hashes, u, now) == [user |-> u, hash |-> hashes[u], ts |-> now]

\* a token nobody issued
ForgedToken == [user |-> NoUser, hash |-> InitialHash, ts |-> 0]

\* PasswordResetTokenGenerator.check_token: the signature is the one make_token would
\* give for the user as they are now, and the token is not older than the timeout
CheckToken(hashes, u, token, now) ==
    /\ token.user = u
    /\ token.hash = hashes[u]
    /\ now - token.ts <= ResetTimeout

\* user.set_password: a new hash under a fresh salt
SetPassword(hash, raw) == [raw |-> raw, salt |-> hash.salt + 1]

SentResponse == [status |-> 200, detail |-> "If this email exists, a reset link has been sent."]

\* send_mail raised: the exception leaves the view
MailErrorResponse == [status |-> 500, detail |-> "Internal Server Error"]

\* POST /users/reset-password/ with a well-formed email; delivered: send_mail returned
ResetRequest(email, delivered) ==
    /\ Cardinality(outbox) < MaxMails
    /\ LET u == UserByEmail(email)
       IN  IF u = NoUser
           THEN /\ rresp' = [rresp EXCEPT !.request[email] = SentResponse]
                /\ UNCHANGED outbox
           ELSE IF delivered
           THEN /\ outbox' = outbox \cup {[to |-> email, uid |-> EncodeUid(u),
                                           token |-> MakeToken(password, u, clock)]}
                /\ rresp' = [rresp EXCEPT !.request[email] = SentResponse]
           ELSE /\ rresp' = [rresp EXCEPT !.request[email] = MailErrorResponse]
                /\ UNCHANGED outbox
    /\ UNCHANGED <<products, orders, addresses, clock, reqVars, payments, adminVars>>
    /\ UNCHANGED <<preq, resp, accounts, meresp, product_seq, edit, password>>

ResetConfirmUnchecked(uid, token, new_password) ==
    /\ DecodeUid(uid) \in DOMAIN accounts
    /\ password[DecodeUid(uid)].salt < MaxResets
    /\ password' = [password EXCEPT ![DecodeUid(uid)] = SetPassword(@, new_password)]
    /\ rresp' = [rresp EXCEPT !.confirm =
                    [status |-> 200, detail |-> "Password reset successful"]]
    /\ UNCHANGED <<products, orders, addresses, clock, reqVars, payments, adminVars>>
    /\ UNCHANGED <<preq, resp, accounts, meresp, product_seq, edit, outbox>>

\* POST /users/reset-password-confirm/
ResetConfirm(uid, token, new_password) ==
    /\ LET u == DecodeUid(uid)
       IN  IF u \notin DOMAIN accounts
           THEN /\ rresp' = [rresp EXCEPT !.confirm =
                                [status |-> 400, detail |-> "Invalid link"]]
                /\ UNCHANGED password
           ELSE IF ~CheckToken(password, u, token, clock)
           THEN /\ rresp' = [rresp EXCEPT !.confirm =
                                [status |-> 400, detail |-> "Invalid or expired token"]]
                /\ UNCHANGED password
           ELSE /\ password[u].salt < MaxResets
                /\ password' = [password EXCEPT ![u] = SetPassword(@, new_password)]
                /\ rresp' = [rresp EXCEPT !.confirm =
                                [status |-> 200, detail |-> "Password reset successful"]]
    /\ UNCHANGED <<products, orders, addresses, clock, reqVars, payments, adminVars>>
    /\ UNCHANGED <<preq, resp, accounts, meresp, product_seq, edit, outbox>>

\* time passes
Tick ==
    /\ clock < MaxTicks
    /\ clock' = clock + 1
    /\ UNCHANGED <<products, orders, addresses, reqVars, payments, adminVars, otherVars>>

\* the uids and tokens a client can send: those of the mails, a uid of no account, a
\* uid that is not a number, and a token nobody issued
UidInputs == {EncodeUid(u) : u \in Accounts \cup {StaffUser + 1}} \cup {GarbageUid}

TokenInputs == {m.token : m \in outbox} \cup {ForgedToken}

NewPasswords == {"chosen"}

NextReset ==
    \/ \E email \in ResetEmails, delivered \in BOOLEAN : ResetRequest(email, delivered)
    \/ \E uid \in UidInputs, token \in TokenInputs, raw \in NewPasswords :
           ResetConfirm(uid, token, raw)
    \/ Tick

SpecReset == Init /\ [][NextReset]_vars

-----------------------------------------------------------------------------
(* Properties *)

RECURSIVE Sold(_, _)
\* the total quantity of product p in the OrderItem rows of the orders
Sold(rows, p) ==
    IF rows = <<>> THEN 0 ELSE Taken(Head(rows).items, p) + Sold(Tail(rows), p)

RECURSIVE CartQuantity(_, _)
\* the quantity a cart asks of product p
CartQuantity(items, p) ==
    IF items = <<>> THEN 0
    ELSE (IF Head(items).product_id = p THEN Head(items).quantity ELSE 0)
         + CartQuantity(Tail(items), p)

RECURSIVE SumLineTotals(_)
SumLineTotals(items) ==
    IF items = <<>> THEN 0 ELSE Head(items).line_total + SumLineTotals(Tail(items))

DistinctRequested(items) == {items[i].product_id : i \in 1..Len(items)}

Completes(r) == pc[r] # "done" /\ pc'[r] = "done"

Failures == {"empty_cart", "invalid_products", "insufficient_stock", "integrity_error"}

\* C1: under any interleaving of order creations, no Product's stock is negative and
\* the quantity of a product in persisted OrderItems never exceeds its initial stock
\* (so two concurrent orders for the last unit cannot both succeed).
C1_NoOversell ==
    \A p \in ProductIds :
        /\ products[p].stock >= 0
        /\ Sold(orders, p) <= InitProducts[p].stock

\* One request has bought the last unit of product 2 while another, which began before
\* that order existed, has since locked and read the row.
C1_LastUnitRace ==
    \E r1, r2 \in Reqs :
        /\ result[r1] = "created"
        /\ Sold(orders, 2) = InitProducts[2].stock
        /\ products[2].stock = 0
        /\ pc[r2] = "locking"
        /\ started[r2] = 0
        /\ 2 \in DOMAIN pmap[r2]

\* C2: when N requests, each for one unit of the same product with stock S < N, have
\* all completed, exactly S succeeded, exactly N - S failed for lack of stock, and the
\* stock is 0.
C2_ExactlyStockSucceed ==
    (\A r \in Reqs : pc[r] = "done") =>
        /\ Cardinality({r \in Reqs : result[r] = "created"}) = BurstStock
        /\ Cardinality({r \in Reqs : result[r] = "insufficient_stock"}) = NumBurst - BurstStock
        /\ products[1].stock = 0

\* every Order row has its two Address rows and at least one OrderItem row
NoPartialOrder ==
    /\ addresses = 2 * Len(orders)
    /\ \A o \in 1..Len(orders) :
           /\ orders[o].items # <<>>
           /\ orders[o].shipping_address \in 1..addresses
           /\ orders[o].billing_address \in 1..addresses

\* C3: a call that fails, for whatever reason, leaves the Order, OrderItem and
\* Address rows and every Product's stock as they were, and no partial order exists.
C3_FailureChangesNothing ==
    [][/\ \A r \in Reqs :
              Completes(r) /\ result'[r] \in Failures => UNCHANGED <<products, orders, addresses>>
       /\ NoPartialOrder']_vars

\* A call has failed on a unique constraint, after its two Address rows were written:
\* only the Order of the other call, and that Order's two Address rows, exist.
C3_FailedCalls ==
    \E r1, r2 \in Reqs :
        /\ result[r1] = "integrity_error"
        /\ result[r2] = "created"
        /\ Len(orders) = 1
        /\ addresses = 2

\* the Orders of the caller of r with r's key that existed when the call began
PriorOrders(r) ==
    {o \in 1..started[r] :
        orders[o].user = user[r] /\ orders[o].idempotency_key = key[r]}

ReplayReturnsPrior(r) ==
    /\ pc'[r] = "done"
    /\ result'[r] = "existing"
    /\ ret'[r] \in PriorOrders(r)
    /\ UNCHANGED <<products, orders, addresses>>

\* C4, as claimed: once the creation by user U with key K has succeeded, every later
\* call by U with key K, whatever its body, returns that Order and writes nothing.
C4_ReplayAnyBody ==
    [][\A r \in Reqs :
           pc[r] = "create" /\ pc'[r] # "create" /\ key[r] # NoKey /\ PriorOrders(r) # {}
               => ReplayReturnsPrior(r)]_vars

\* C4, amended: once the creation by user U with key K has succeeded, every later call
\* by U with key K whose body passes validation (a non-empty cart) returns that Order
\* and writes nothing.
C4_ReplayValidBody ==
    [][\A r \in Reqs :
           (/\ pc[r] = "create" /\ pc'[r] # "create" /\ key[r] # NoKey /\ PriorOrders(r) # {}
            /\ Validate(cart[r]))
               => ReplayReturnsPrior(r)]_vars

\* A later call was answered with the one Order that exists.
C4_Replayed ==
    \E r \in Reqs :
        /\ result[r] = "existing"
        /\ ret[r] = 1
        /\ Len(orders) = 1
        /\ orders[1].idempotency_key # NoKey

\* C5: a successful creation takes from each product exactly the quantity the cart
\* asks of it, and leaves every other product (and every other column) as it was.
C5_StockDecrement ==
    [][\A r \in Reqs :
           Completes(r) /\ result'[r] = "created" =>
               \A p \in ProductIds :
                   products'[p] =
                       [products[p] EXCEPT !.stock = @ - CartQuantity(cart[r], p)]]_vars

\* The cart [product 1 x2, product 2 x1] was ordered: both stocks are down by those
\* quantities and product 3 is untouched.
C5_TwoLineOrder ==
    /\ Len(orders) = 1
    /\ Len(orders[1].items) = 2
    /\ CartQuantity([i \in 1..2 |-> [product_id |-> orders[1].items[i].product,
                                     quantity |-> orders[1].items[i].quantity]], 1) = 2
    /\ products[1].stock = InitProducts[1].stock - 2
    /\ products[2].stock = InitProducts[2].stock - 1
    /\ products[3] = InitProducts[3]

\* C6: in every persisted Order each line_total is unit_price x quantity, the subtotal
\* is the sum of the line totals, and grand_total = subtotal - discount + tax + shipping.
C6_TotalsAddUp ==
    \A o \in 1..Len(orders) :
        /\ \A i \in 1..Len(orders[o].items) :
               orders[o].items[i].line_total
                   = orders[o].items[i].unit_price * orders[o].items[i].quantity
        /\ orders[o].subtotal = SumLineTotals(orders[o].items)
        /\ orders[o].grand_total
               = orders[o].subtotal - orders[o].discount_total
                 + orders[o].tax_total + orders[o].shipping_total

\* An Order of two lines, one of them of two units, is persisted.
C6_TwoLinesPersisted ==
    \E o \in 1..Len(orders) :
        /\ Len(orders[o].items) = 2
        /\ \E i \in 1..2 : orders[o].items[i].quantity = 2

\* C7: for every subtotal the tax is 16% of it to the nearest cent, shipping is 5.00
\* below 100.00 and free from 100.00 on, and the discount is 0.00; a subtotal of
\* 25.00 gives tax 4.00, shipping 5.00 and grand total 34.00.
C7_TaxAndShipping ==
    \A o \in 1..Len(orders) :
        LET s == orders[o].subtotal
            off == 100 * orders[o].tax_total - 16 * s
        IN  /\ 2 * off <= 100 /\ 2 * off >= -100
            /\ orders[o].shipping_total = IF s < 10000 THEN 500 ELSE 0
            /\ orders[o].discount_total = 0
            /\ s = 2500 => /\ orders[o].tax_total = 400
                           /\ orders[o].shipping_total = 500
                           /\ orders[o].grand_total = 3400

\* An Order of exactly 100.00 is persisted, with free shipping.
C7_ExactlyThreshold ==
    \E o \in 1..Len(orders) :
        orders[o].subtotal = 10000 /\ orders[o].shipping_total = 0

\* C8: the 'invalid or inactive products' error is raised exactly when the number of
\* distinct active products matching the cart differs from the number of distinct
\* product ids in the cart.
C8_InvalidIffDistinctMismatch ==
    [][\A r \in Reqs :
           pc[r] = "locking" /\ Completes(r) =>
               (result'[r] = "invalid_products"
                   <=> Cardinality(Matching(products, cart[r]))
                           # Cardinality(DistinctRequested(cart[r])))]_vars

\* the status of the Payment of the Order an admin update names, "" when it has none
CurrentStatus(a) ==
    IF aorder[a] \in 1..Len(orders) /\ PaymentOf(payments, aorder[a]) # 0
    THEN payments[PaymentOf(payments, aorder[a])].status
    ELSE ""

Answers(a) == apc[a] = "update" /\ apc'[a] # "update"

\* C9: an admin update to REFUNDED is rejected when the payment is PENDING or FAILED
\* and accepted when it is PAID or SUCCESS, and an accepted one sets the Order's
\* status to REFUNDED.
C9_RefundFromPaidOrSuccess ==
    [][\A a \in Admins :
           /\ Answers(a) /\ astatus[a] = "REFUNDED" /\ aorder[a] # 0 =>
                  /\ CurrentStatus(a) \in {"PENDING", "FAILED"} => aresult'[a] \in Rejections
                  /\ CurrentStatus(a) \in {"PAID", "SUCCESS"} => apc'[a] = "save_payment"
           /\ apc[a] = "save_order" /\ apc'[a] # "save_order" /\ astatus[a] = "REFUNDED" =>
                  orders'[aorder[a]].status = "REFUNDED"]_vars

\* the cases the claim lists: a missing field, an unknown order or one without
\* payment, a target other than PAID or REFUNDED, a refund of a payment not paid
ListedRejection(a) ==
    \/ aorder[a] = 0
    \/ astatus[a] = ""
    \/ CurrentStatus(a) = ""
    \/ astatus[a] \notin {"PAID", "REFUNDED"}
    \/ astatus[a] = "REFUNDED" /\ CurrentStatus(a) \notin {"PAID", "SUCCESS"}

\* C10: every rejected admin update, and so every update of the listed cases, leaves
\* the Payment's and the Order's status unchanged.
C10_RejectionChangesNothing ==
    [][\A a \in Admins :
           Answers(a) =>
               /\ ListedRejection(a) => aresult'[a] \in Rejections
               /\ aresult'[a] \in Rejections =>
                      /\ apc'[a] = "idle"
                      /\ UNCHANGED <<payments, orders>>]_vars

\* A refund was refused while every Payment is still PENDING.
C10_RefundOfPendingRefused ==
    \E a \in Admins :
        /\ aresult[a] = "400_not_paid"
        /\ Len(payments) > 0
        /\ \A i \in 1..Len(payments) : payments[i].status = "PENDING"
        /\ \A o \in 1..Len(orders) : orders[o].status = "PENDING"

\* the status changes of a Payment the claim allows
AllowedTransitions ==
    {<<"PENDING", "SUCCESS">>, <<"PENDING", "FAILED">>, <<"SUCCESS", "REFUNDED">>}

\* C11: across payment creation, mark_successful, mark_failed and admin updates a
\* Payment's status is always one of PENDING, SUCCESS, FAILED, REFUNDED, a new Payment
\* is PENDING, and the status changes only along PENDING->SUCCESS, PENDING->FAILED and
\* SUCCESS->REFUNDED (so REFUNDED is never reached from PENDING or FAILED).
C11_StatusMachine ==
    [][\A i \in 1..Len(payments') :
           /\ payments'[i].status \in PaymentStatuses
           /\ i > Len(payments) => payments'[i].status = "PENDING"
           /\ i <= Len(payments) /\ payments'[i].status # payments[i].status =>
                  <<payments[i].status, payments'[i].status>> \in AllowedTransitions]_vars

\* C12: mark_successful sets the Payment to SUCCESS and its Order to PAID in one step
\* and touches no other row; mark_failed sets the Payment to FAILED and leaves every
\* Order, the linked one included, as it was.
C12_MarkEffects ==
    [][\A i \in 1..Len(payments) :
           /\ MarkSuccessful(i) =>
                  /\ payments'[i].status = "SUCCESS"
                  /\ orders'[payments[i].order].status = "PAID"
                  /\ \A j \in 1..Len(payments) : j # i => payments'[j] = payments[j]
                  /\ \A o \in 1..Len(orders) : o # payments[i].order => orders'[o] = orders[o]
           /\ MarkFailed(i) =>
                  /\ payments'[i].status = "FAILED"
                  /\ orders' = orders]_vars

\* One Payment was marked successful and its Order is PAID; the other was marked
\* failed and its Order is still PENDING.
C12_OneOfEach ==
    \E i, j \in 1..Len(payments) :
        /\ payments[i].status = "SUCCESS" /\ orders[payments[i].order].status = "PAID"
        /\ payments[j].status = "FAILED" /\ orders[payments[j].order].status = "PENDING"

\* C17: an admin update to PAID that names an Order with a Payment is accepted whatever
\* the Payment's status; its first write sets the Payment's status to PAID and its
\* second sets the Order's status to PAID, and it is answered 200.
C17_PaidAlwaysAccepted ==
    [][\A a \in Admins :
           astatus[a] = "PAID" =>
               /\ Answers(a) /\ CurrentStatus(a) # "" =>
                      apc'[a] = "save_payment" /\ apay'[a] = PaymentOf(payments, aorder[a])
               /\ apc[a] = "save_payment" /\ apc'[a] # "save_payment" =>
                      payments'[apay[a]].status = "PAID" /\ apc'[a] = "save_order"
               /\ apc[a] = "save_order" /\ apc'[a] # "save_order" =>
                      orders'[aorder[a]].status = "PAID" /\ aresult'[a] = "200_ok"]_vars

\* An update to PAID was answered 200 while another update to PAID, of a Payment that
\* is REFUNDED, has passed the checks.
C17_PaidOverRefunded ==
    \E a, b \in Admins :
        /\ aresult[a] = "200_ok"
        /\ apc[b] = "save_payment"
        /\ astatus[b] = "PAID"
        /\ payments[apay[b]].status = "REFUNDED"

\* payment-creation request q is answered in this step
PayCompletes(q) == preq[q].pc # "done" /\ preq'[q].pc = "done"

PayRejections == {"403_forbidden", "400_invalid_order", "400_order_has_payment", "500_integrity_error"}

\* C13: every Payment the API creates has the amount and currency of its Order, status
\* PENDING and the requester as user, whatever the body says of those fields.
C13_CreatedFromOrder ==
    [][\A q \in DOMAIN preq :
           PayCompletes(q) /\ preq'[q].result = "201_created" =>
               /\ Len(payments') = Len(payments) + 1
               /\ LET new == payments'[Len(payments')]
                  IN  /\ new.order = preq[q].body.order
                      /\ new.amount = orders[new.order].grand_total
                      /\ new.currency = orders[new.order].currency
                      /\ new.status = "PENDING"
                      /\ new.user = preq[q].user]_vars

\* A request whose body forged amount, currency, status and user created the Payment of
\* the Order in KES, with the Order's amount and currency.
C13_ForgedBodyCreated ==
    \E q \in DOMAIN preq :
        /\ preq[q].result = "201_created"
        /\ preq[q].body.amount # 0 /\ preq[q].body.status = "SUCCESS"
        /\ preq[q].body.user # NoUser /\ preq[q].body.user # preq[q].user
        /\ preq[q].body.order = 2
        /\ PaymentOf(payments, 2) # 0
        /\ payments[PaymentOf(payments, 2)].currency = "KES"

\* C14: under any interleaving of creation requests each Order has at most one
\* Payment, and a request answered while its Order has a Payment is rejected and leaves
\* the Payment rows as they were.
C14_OnePaymentPerOrder ==
    [][/\ \A i, j \in 1..Len(payments') : payments'[i].order = payments'[j].order => i = j
       /\ \A q \in DOMAIN preq :
              PayCompletes(q) /\ PaymentUniqueViolation(payments, preq'[q].body.order) =>
                  /\ preq'[q].result \in PayRejections
                  /\ payments' = payments]_vars

\* Two requests for the same Order both passed validation; one created the Payment and
\* the other was refused by the unique constraint.
C14_RaceRefused ==
    \E q1, q2 \in DOMAIN preq :
        /\ preq[q1].result = "201_created"
        /\ preq[q2].result = "500_integrity_error"
        /\ preq[q1].body.order = preq[q2].body.order
        /\ Len(payments) = 1

\* C15: a customer request naming another user's Order is rejected with a validation
\* error and creates no Payment, so every Payment created through the customer
\* endpoint belongs to the owner of its Order.
C15_ForeignOrderRefused ==
    [][\A q \in DOMAIN preq :
           /\ (/\ PayCompletes(q)
               /\ preq'[q].via = "customer"
               /\ preq'[q].body.order \in 1..Len(orders)
               /\ orders[preq'[q].body.order].user # preq'[q].user)
                  => (/\ preq'[q].result \in {"400_invalid_order", "400_order_has_payment"}
                      /\ payments' = payments)
           /\ PayCompletes(q) /\ preq'[q].via = "customer" /\ preq'[q].result = "201_created" =>
                  LET new == payments'[Len(payments')]
                  IN  new.user = orders[new.order].user]_vars

\* C16: a non-staff user is returned, by list and by retrieve, only Orders of their own
\* (the list being all of them, and a retrieve of their own Order answering it), while a
\* staff user is returned every Order by list and any Order by retrieve.
C16_OwnOrdersOnly ==
    resp.action # "none" =>
        LET u == resp.user
            own == {o \in 1..Len(orders) : orders[o].user = u}
        IN  IF accounts[u].is_staff
            THEN /\ resp.action = "list" => resp.ids = 1..Len(orders)
                 /\ resp.action = "retrieve" /\ resp.id \in 1..Len(orders) =>
                        resp.status = 200 /\ resp.ids = {resp.id}
            ELSE /\ resp.ids \subseteq own
                 /\ resp.action = "list" => resp.ids = own
                 /\ resp.action = "retrieve" /\ resp.id \in own =>
                        resp.status = 200 /\ resp.ids = {resp.id}
                 /\ resp.action = "retrieve" /\ resp.id \notin own => resp.status \in {403, 404}

\* A customer asked for an existing Order of another user and was answered 404.
C16_ForeignOrderHidden ==
    /\ resp.action = "retrieve"
    /\ ~accounts[resp.user].is_staff
    /\ resp.id \in 1..Len(orders)
    /\ orders[resp.id].user # resp.user
    /\ resp.status = 404
    /\ resp.ids = {}

\* the stock of product p is lower after this step
StockLowered(p) ==
    p \in DOMAIN products /\ p \in DOMAIN products' /\ products'[p].stock < products[p].stock

\* this step is the success of an order creation whose cart holds product p
OrderedIn(p) ==
    \E r \in Reqs : Completes(r) /\ result'[r] = "created" /\ CartQuantity(cart[r], p) > 0

\* C18, as claimed: across order creation and the admin's product create, update,
\* partial update and delete, a Product's stock is lowered only by a successful order
\* creation that contains the product.
C18_OnlyOrdersLowerStock ==
    [][\A p \in 1..MaxProductId : StockLowered(p) => OrderedIn(p)]_vars

\* C18, amended: a Product's stock is lowered only by a successful order creation that
\* contains the product or by an admin update or partial update of that product;
\* product create and delete lower no stock.
C18_OrdersAndEditsLowerStock ==
    [][\A p \in 1..MaxProductId :
           StockLowered(p) =>
               \/ OrderedIn(p)
               \/ \E data \in ProductData : UpdateProduct(p, data)
               \/ \E patch \in ProductPatches : PartialUpdateProduct(p, patch)]_vars

\* With no Order placed, product 1 has less stock than it started with, and a product
\* was created and another deleted.
C18_LoweredWithoutOrder ==
    /\ orders = <<>>
    /\ 1 \in DOMAIN products
    /\ products[1].stock < InitProducts[1].stock
    /\ MaxProductId \in DOMAIN products
    /\ 2 \notin DOMAIN products

\* C19: DELETE on a product by an admin never removes the Product row: the row stays,
\* with is_active False, so OrderItems that reference it keep a valid reference.
C19_DeleteIsSoft ==
    [][\A p \in DOMAIN products :
           /\ p \in DOMAIN products'
           /\ DestroyProduct(p) => ~products'[p].is_active
           /\ \A o \in 1..Len(orders) : \A i \in 1..Len(orders[o].items) :
                  orders[o].items[i].product \in DOMAIN products']_vars

\* user u's DELETE /me/ is answered in this step
MeAnswered(u) == Len(meresp'[u]) = Len(meresp[u]) + 1

C27_EveryCreationCompletes ==
    /\ \A r \in 1..NumReq : <>(pc[r] = "done")
    /\ [](\A r \in Reqs : ~Deadlocked(r))

\* Two creations name products 1 and 2 in opposite orders; the first holds the lock of
\* a row the second waits for.
C27_OppositeOrdersContend ==
    /\ [i \in 1..Len(cart[1]) |-> cart[1][i].product_id] = <<1, 2>>
    /\ [i \in 1..Len(cart[2]) |-> cart[2][i].product_id] = <<2, 1>>
    /\ DOMAIN pmap[1] # {}
    /\ Blocked(2)

\* C24: every Order that is persisted starts PENDING and carries a number different
\* from that of every other persisted Order, also when two creations fall into the
\* same millisecond.
C24_PendingAndDistinctNumbers ==
    [][/\ \A o \in Len(orders) + 1..Len(orders') : orders'[o].status = "PENDING"
       /\ \A o1, o2 \in 1..Len(orders') :
              o1 # o2 => orders'[o1].number # orders'[o2].number]_vars

\* A creation ran in the millisecond of the latest persisted Order, whose number it
\* generated again, and was refused by the unique constraint.
C24_SameMillisecond ==
    \E r \in Reqs :
        /\ result[r] = "integrity_error"
        /\ Len(orders) >= 1
        /\ orders[Len(orders)].number = GenerateOrderNumber(clock)

\* C25: when two creations by the same user with the same Idempotency-Key run
\* concurrently, at most one Order with that key is persisted, stock is lowered and
\* Address and OrderItem rows are created for that one Order only.
C25_KeyPersistedOnce ==
    /\ \A k \in Keys \ {NoKey} :
           Cardinality({o \in 1..Len(orders) : orders[o].idempotency_key = k}) <= 1
    /\ addresses = 2 * Len(orders)
    /\ \A p \in DOMAIN products : InitProducts[p].stock = products[p].stock + Sold(orders, p)

\* Two creations of one user with one key both passed the lookup; the first was
\* persisted and the second, in a later millisecond, was refused and rolled back.
C25_BothPassedLookup ==
    /\ \E r1, r2 \in Reqs :
          /\ result[r1] = "created"
          /\ result[r2] = "integrity_error"
    /\ Len(orders) = 1
    /\ clock > orders[1].number

\* C29: a creation by a user whose key is attached to an Order of another user (and to
\* none of their own) is handled as a first use of the key: it leaves that Order alone
\* and, with a valid cart that is in stock, persists a new Order of the caller.
C29_ForeignKeyIsFirstUse ==
    [][\A r \in Reqs :
           (/\ pc[r] = "locking" /\ Completes(r)
            /\ key[r] # NoKey
            /\ \E o \in 1..started[r] :
                   orders[o].idempotency_key = key[r] /\ orders[o].user # user[r]
            /\ result'[r] \notin {"invalid_products", "insufficient_stock"}
            /\ \A o \in 1..Len(orders) : orders[o].number # GenerateOrderNumber(clock'))
           => /\ result'[r] = "created"
              /\ Len(orders') = Len(orders) + 1
              /\ orders'[Len(orders')].user = user[r]
              /\ orders'[Len(orders')].idempotency_key = key[r]
              /\ \A o \in 1..Len(orders) : orders'[o] = orders[o]]_vars

\* the amounts of an Order row
Totals(order) ==
    <<order.subtotal, order.discount_total, order.tax_total, order.shipping_total,
      order.grand_total>>

\* C23: the name, unit_price, quantity and line_total of an OrderItem and the totals
\* of its Order are fixed when the Order is created: no later product create, update,
\* partial update or delete and no further order changes them.
C23_SnapshotsFixed ==
    [][\A o \in 1..Len(orders) :
           /\ o \in 1..Len(orders')
           /\ orders'[o].items = orders[o].items
           /\ Totals(orders'[o]) = Totals(orders[o])]_vars

\* Product 2 was renamed, repriced and restocked after Order 2 and ordered again at the
\* new price; Order 2 still carries the old name and price.
C23_RepricedAfterOrder ==
    /\ Len(orders) = 3
    /\ orders[2].items[1].product = 2
    /\ orders[2].items[1].name = "Desk" /\ orders[2].items[1].unit_price = 500
    /\ orders[2].grand_total = GrandTotal(500)
    /\ products[2].name = "Lamp" /\ products[2].price = 1000
    /\ orders[3].items[1].product = 2
    /\ orders[3].items[1].unit_price = 1000

\* C26: stock is conserved under races of order creations with admin product updates
\* that carry no stock: once every request has completed, each product's initial stock
\* is its current stock plus the quantity of it in persisted OrderItems.
C26_StockConservedUnderEdits ==
    (/\ \A r \in Reqs : pc[r] \in {"idle", "done"}
     /\ \A e \in DOMAIN edit : edit[e].pc # "read")
    => \A p \in DOMAIN products :
           InitProducts[p].stock = products[p].stock + Sold(orders, p)

\* C28: after any interleaving of concurrent admin payment status updates on one
\* order, once all of them have completed the status of the Order is the status of its
\* Payment: never a REFUNDED Payment with a PAID Order, or the reverse.
C28_OrderFollowsPayment ==
    (\A a \in Admins : apc[a] = "idle")
    => \A i \in 1..Len(payments) :
           (\/ payments[i].status \in {"PAID", "REFUNDED"}
            \/ orders[payments[i].order].status \in {"PAID", "REFUNDED"})
           => orders[payments[i].order].status = payments[i].status

\* C30: an accepted admin payment status update changes exactly two records, the Order
\* its body names and the Payment of that Order, and of each only the status; every
\* other Order and Payment, the Payment of the URL path included, is left as it was.
C30_OnlyBodyOrderAndItsPayment ==
    [][\A a \in Admins :
           /\ AdminSavePayment(a) =>
                  /\ orders' = orders
                  /\ \A i \in 1..Len(payments) :
                         payments'[i] =
                             IF i = PaymentOf(payments, aorder[a])
                             THEN [payments[i] EXCEPT !.status = astatus[a]]
                             ELSE payments[i]
           /\ AdminSaveOrder(a) =>
                  /\ payments' = payments
                  /\ \A o \in 1..Len(orders) :
                         orders'[o] =
                             IF o = aorder[a]
                             THEN [orders[o] EXCEPT !.status = astatus[a]]
                             ELSE orders[o]
           /\ (AdminSubmit(a, apk'[a], aorder'[a], astatus'[a]) \/ AdminLoad(a)) =>
                  orders' = orders /\ payments' = payments]_vars

\* An update sent to the path of Payment 2 with the id of Order 1 in its body has
\* written Payment 1; Payment 2 and Order 2 are as they were.
C30_PathOfAnotherPayment ==
    \E a \in Admins :
        /\ apc[a] = "save_order"
        /\ apk[a] = 2 /\ aorder[a] = 1
        /\ payments[1].status = "PAID"
        /\ payments[2] = PaidFor[2]
        /\ orders[2] = PlacedOrders.orders[2]

\* C21: for every well-formed email the password-reset request is answered with the
\* same status code and body whether or not an account has that email: any two
\* answers of the endpoint are equal.
C21_SameAnswerForEveryEmail ==
    \A e1, e2 \in ResetEmails :
        (rresp.request[e1] # NoResetResponse /\ rresp.request[e2] # NoResetResponse)
            => rresp.request[e1] = rresp.request[e2]

\* a confirm with this uid and token would be refused now
Refused(hashes, now, uid, token) ==
    \/ DecodeUid(uid) \notin DOMAIN accounts
    \/ ~CheckToken(hashes, DecodeUid(uid), token, now)

\* C22: a reset token is single-use and bound to one user.  A confirm whose uid names
\* no account or whose token does not validate for that account is answered 400 and
\* changes no password; a confirm that succeeds changes the password of that account
\* only, and from then on (uid, token), like every pair that is refused once it has
\* been mailed, is refused.
C22_SingleUseBoundToUser ==
    [][/\ \A uid \in UidInputs, token \in TokenInputs, raw \in NewPasswords :
              ResetConfirm(uid, token, raw) =>
                  IF Refused(password, clock, uid, token)
                  THEN rresp'.confirm.status = 400 /\ password' = password
                  ELSE /\ rresp'.confirm.status = 200
                       /\ \A u \in DOMAIN password \ {DecodeUid(uid)} :
                              password'[u] = password[u]
                       /\ Refused(password', clock', uid, token)
       /\ \A m \in outbox, uid \in UidInputs :
              Refused(password, clock, uid, m.token) => Refused(password', clock', uid, m.token)
       /\ \A uid \in UidInputs : Refused(password', clock', uid, ForgedToken)]_vars

\* User 1 reset their password with a mailed token, and the same uid and token were
\* then refused with 400.
C22_ReplayRefused ==
    /\ password[1] = SetPassword(InitialHash, "chosen")
    /\ rresp.confirm = [status |-> 400, detail |-> "Invalid or expired token"]
    /\ \E m \in outbox : m.uid = EncodeUid(1) /\ m.token.hash = InitialHash
    /\ clock = 0

====
